---------------------------- MODULE Spec2Model ----------------------------
(***************************************************************************)
(* Model of psi4_optimize, the bounded restart driver of the notebook      *)
(* psi4_intoductory_methods.ipynb: one call of the function, from entry to *)
(* its return or to the exception it lets escape.  The external engine     *)
(* (psi4.optimize, psi4.set_options, Wavefunction.to_file, the logger) is  *)
(* modelled by its visible effects only; the outcome of each               *)
(* psi4.optimize invocation is chosen nondeterministically.                *)
(***************************************************************************)
EXTENDS Integers, Sequences, FiniteSets, TLC

\* ------------------------------------------------------------------ bounds
\* largest initial_iterations tried
MaxInit == 2
\* largest increment_iteration tried
MaxInc == 2
\* largest max_loop_count tried
MaxM == 4
\* max_loop_count is a plain int: values down to -MaxNeg are tried too
MaxNeg == 1
\* largest pre-call value of MAXITER / GEOM_MAXITER in the process options
MaxPre == 1

\* A cap on the number of psi4.optimize invocations of one call.  The code
\* has no such cap; the loop of the code stops before it (CapNeverBinds).
MaxAttempts == MaxM + 2

\* ------------------------------------------------------------- constants
\* the scratch unit whose file name receives the unconverged wavefunction
ScratchUnit == 180

\* --------------------------------------------------------------- helpers
MaxOf(a, b) == IF a >= b THEN a ELSE b

\* psi4.set_options(upd): the named options are overwritten, the others kept
SetOptions(opts, upd) ==
    [k \in (DOMAIN opts) \cup (DOMAIN upd) |->
        IF k \in DOMAIN upd THEN upd[k] ELSE opts[k]]

\* the options written before the loop
InitialOptions(initial) ==
    [MAXITER |-> initial, GEOM_MAXITER |-> initial]

\* initial_iterations + 2 * increment_iteration
RestartIterationsDoubled(initial, increment) == initial + 2 * increment

\* initial_iterations - increment_iteration
RestartIterationsDecreased(initial, increment) == initial - increment

\* the iteration budget written by the except block
RestartIterations(initial, increment) == initial + increment

\* GUESS is left out of the options written by the except block
RestartOptionsWithoutGuess(initial, increment) ==
    [MAXITER |-> RestartIterations(initial, increment),
     GEOM_MAXITER |-> RestartIterations(initial, increment)]

\* the options written by the except block
RestartOptions(initial, increment) ==
    [GUESS |-> "read",
     MAXITER |-> RestartIterations(initial, increment),
     GEOM_MAXITER |-> RestartIterations(initial, increment)]

\* loop_count is left as it was
NextLoopCountStuck(count) == count

\* loop_count = loop_count + 1
NextLoopCount(count) == count + 1

\* if max_loop_count < loop_count
CeilingReachedLate(max, count) == max < count

\* if max_loop_count == loop_count
CeilingReachedExact(max, count) == max = count

\* if max_loop_count <= loop_count
CeilingReached(max, count) == max <= count

\* what psi4.optimize raises when the geometry does not converge in attempt k:
\* a ConvergenceError that carries the unconverged wavefunction of attempt k
ConvergenceError(k) == [kind |-> "ConvergenceError", id |-> k, wfn |-> k]

\* any other exception of attempt k (it carries no wavefunction)
OtherError(k) == [kind |-> "OtherError", id |-> k, wfn |-> -1]

\* raise RuntimeError(...): a new exception in place of the caught one
ReraiseTranslated(cerr) == [kind |-> "RuntimeError", id |-> cerr.id, wfn |-> -1]

\* raise cerr: the exception that leaves the function
Reraise(cerr) == cerr

\* molecule.geometry(), scaled, to_array(): the geometry the molecule has
\* when attempt k has failed
Snapshot(k) == [geometry_after |-> k]

\* molecule_traj.insert(0, ...): the newest geometry is put first
AppendSnapshotPrepended(traj, mol, k) ==
    IF mol THEN <<Snapshot(k)>> \o traj ELSE traj

\* the append is left out
AppendSnapshotSkipped(traj, mol, k) == traj

\* if molecule is not None: molecule_traj.append(bohr_coor.to_array())
AppendSnapshot(traj, mol, k) ==
    IF mol THEN Append(traj, Snapshot(k)) ELSE traj

\* unconv_wfn.to_file(unconv_wfn.get_scratch_filename(180))
ToFile(files, unconv_wfn) ==
    [u \in (DOMAIN files) \cup {ScratchUnit} |->
        IF u = ScratchUnit THEN unconv_wfn ELSE files[u]]

\* ------------------------------------------------------------------ state
VARIABLES
    initial_iterations,   \* parameter
    increment_iteration,  \* parameter
    max_loop_count,       \* parameter
    molecule,             \* parameter: TRUE iff a molecule handle is given
    pc,                   \* "entry", "loop", "after_loop", "returned", "raised"
    options,              \* the process-wide psi4 options
    options0,             \* the options as they were when the call began
    unconv,               \* local
    loop_count,           \* local
    molecule_traj,        \* local (a list), meaningful when bound
    bound,                \* the names of the locals that are bound
    result,               \* opt_energy, wfn, traj of the converged attempt
    files,                \* scratch unit -> wavefunction written to its file
    returned,             \* <<>> or <<the tuple returned>>
    raised,               \* <<>> or <<the exception that escaped>>
    invocations,          \* history: number of psi4.optimize invocations
    outcomes,             \* history: outcome of each invocation, in order
    writes,               \* history: the to_file calls, in order
    events                \* history: every visible effect, in order

vars == <<initial_iterations, increment_iteration, max_loop_count, molecule,
          pc, options, options0, unconv, loop_count, molecule_traj, bound,
          result, files, returned, raised, invocations, outcomes, writes,
          events>>

params == <<initial_iterations, increment_iteration, max_loop_count,
            molecule, options0>>

\* the options a caller may have left in the process before the call
PreOptions ==
    {[GUESS |-> g, MAXITER |-> n, GEOM_MAXITER |-> n] :
        g \in {"sad", "read"}, n \in 1..MaxPre}

Init ==
    /\ initial_iterations \in 1..MaxInit
    /\ increment_iteration \in 1..MaxInc
    /\ max_loop_count \in (-MaxNeg)..MaxM
    /\ molecule \in BOOLEAN
    /\ options0 \in PreOptions
    /\ options = options0
    /\ pc = "entry"
    /\ unconv = FALSE
    /\ loop_count = 0
    /\ molecule_traj = <<>>
    /\ bound = {}
    /\ result = <<>>
    /\ files = <<>>
    /\ returned = <<>>
    /\ raised = <<>>
    /\ invocations = 0
    /\ outcomes = <<>>
    /\ writes = <<>>
    /\ events = <<>>

\* ---------------------------------------------------------------- actions
\* The statements before the while loop.
Setup ==
    /\ pc = "entry"
    /\ unconv' = TRUE
    /\ options' = SetOptions(options, InitialOptions(initial_iterations))
    /\ loop_count' = 0
    /\ molecule_traj' = <<>>
    /\ bound' = {"unconv", "loop_count"}
                  \cup (IF molecule THEN {"molecule_traj"} ELSE {})
    /\ events' = events \o <<"set_options">>
    /\ pc' = "loop"
    /\ UNCHANGED <<params, result, files, returned, raised, invocations,
                   outcomes, writes>>

\* the loop is entered: while unconv is True
InLoop == pc = "loop" /\ unconv /\ invocations < MaxAttempts

\* unconv is left True
TryBodyUnconvForgotten == TRUE

\* unconv = False, the last statement of the try body
TryBodyUnconv == FALSE

\* One pass of the loop whose psi4.optimize converges: the try body runs to
\* its end and the loop condition is tested again.
Converged ==
    /\ InLoop
    /\ invocations' = invocations + 1
    /\ outcomes' = Append(outcomes, "converged")
    /\ result' = <<[opt_energy |-> invocations + 1,
                    wfn |-> invocations + 1,
                    traj |-> [history_of |-> invocations + 1]]>>
    /\ bound' = bound \cup {"opt_energy", "wfn", "traj"}
    /\ unconv' = TryBodyUnconv
    /\ events' = events \o <<"info", "optimize", "info">>
    /\ pc' = IF unconv' THEN "loop" ELSE "after_loop"
    /\ UNCHANGED <<params, options, loop_count, molecule_traj, files,
                   returned, raised, writes>>

\* a bare except: every exception is caught
CaughtAny(exc) == TRUE

\* except psi4.driver.ConvergenceError: the exceptions the clause catches
Caught(exc) == exc.kind = "ConvergenceError"

\* the options are set before the wavefunction is written
ExceptEffectsOptionsFirst(mol, stop) ==
    <<"warning">>
        \o (IF mol THEN <<"append">> ELSE <<>>)
        \o <<"set_options", "to_file">>
        \o (IF stop THEN <<"error", "raise">> ELSE <<>>)

\* log.error stands before the test of the ceiling
ExceptEffectsErrorAlways(mol, stop) ==
    <<"warning">>
        \o (IF mol THEN <<"append">> ELSE <<>>)
        \o <<"to_file", "set_options", "error">>
        \o (IF stop THEN <<"raise">> ELSE <<>>)

\* the visible effects of the except block, in the order of its statements
ExceptEffects(mol, stop) ==
    <<"warning">>
        \o (IF mol THEN <<"append">> ELSE <<>>)
        \o <<"to_file", "set_options">>
        \o (IF stop THEN <<"error", "raise">> ELSE <<>>)

\* The except block for the caught exception cerr of invocation k, to the
\* next pass of the loop or to the raise.
ExceptBlock(cerr, k) ==
    LET unconv_wfn == cerr.wfn
        count == NextLoopCount(loop_count)
        stop == CeilingReached(max_loop_count, count)
    IN
        /\ molecule_traj' = AppendSnapshot(molecule_traj, molecule, k)
        /\ files' = ToFile(files, unconv_wfn)
        /\ writes' = Append(writes, [unit |-> ScratchUnit, wfn |-> unconv_wfn])
        /\ options' = SetOptions(options,
                         RestartOptions(initial_iterations, increment_iteration))
        /\ loop_count' = count
        /\ bound' = bound \cup {"cerr", "unconv_wfn"}
                      \cup (IF molecule THEN {"bohr_coor"} ELSE {})
        /\ events' = events \o <<"info", "optimize">>
                            \o ExceptEffects(molecule, stop)
        /\ raised' = IF stop THEN <<Reraise(cerr)>> ELSE raised
        /\ pc' = IF stop THEN "raised" ELSE "loop"

\* An exception no except clause catches leaves the function at once.
Propagate(exc) ==
    /\ raised' = <<exc>>
    /\ events' = events \o <<"info", "optimize">>
    /\ pc' = "raised"
    /\ UNCHANGED <<options, loop_count, molecule_traj, bound, files, writes>>

\* One pass of the loop whose psi4.optimize raises exc.
Failed(exc, outcome) ==
    /\ InLoop
    /\ invocations' = invocations + 1
    /\ outcomes' = Append(outcomes, outcome)
    /\ IF Caught(exc)
         THEN ExceptBlock(exc, invocations + 1)
         ELSE Propagate(exc)
    /\ UNCHANGED <<params, unconv, result, returned>>

\* psi4.optimize raises ConvergenceError
ConvergenceFailure ==
    Failed(ConvergenceError(invocations + 1), "unconverged")

\* psi4.optimize raises anything else
OtherFailure ==
    Failed(OtherError(invocations + 1), "error")

\* the engine history is returned in place of the accumulated geometries
FinalTrajEngineOnly(mol, engine_traj, acc) == engine_traj

\* if molecule is not None: traj = {"coordinates": tuple(np.array(molecule_traj))}
FinalTraj(mol, engine_traj, acc) ==
    IF mol THEN [coordinates |-> acc] ELSE engine_traj

\* molecule_traj is read whether or not a molecule was given
ReadAfterLoopUnguarded(mol) ==
    {"opt_energy", "wfn", "traj", "molecule_traj"}

\* the locals the statements after the loop read
ReadAfterLoop(mol) ==
    {"opt_energy", "wfn", "traj"}
        \cup (IF mol THEN {"molecule_traj"} ELSE {})

\* the locals bound only by the except block
BoundOnlyByExcept == {"cerr", "unconv_wfn", "bohr_coor"}

\* what reading an unbound local raises
UnboundLocalError == [kind |-> "UnboundLocalError", id |-> -1, wfn |-> -1]

\* The statements after the loop.
Return ==
    /\ pc = "after_loop"
    /\ IF ReadAfterLoop(molecule) \subseteq bound
         THEN /\ LET r == result[1]
                     traj == FinalTraj(molecule, r.traj, molecule_traj)
                 IN returned' = <<[opt_energy |-> r.opt_energy,
                                   wfn |-> r.wfn, traj |-> traj]>>
              /\ events' = events \o <<"return">>
              /\ pc' = "returned"
              /\ UNCHANGED raised
         ELSE /\ raised' = <<UnboundLocalError>>
              /\ events' = events \o <<"raise">>
              /\ pc' = "raised"
              /\ UNCHANGED returned
    /\ UNCHANGED <<params, options, unconv, loop_count, molecule_traj, bound,
                   result, files, invocations, outcomes, writes>>

Next ==
    \/ Setup
    \/ Converged
    \/ ConvergenceFailure
    \/ OtherFailure
    \/ Return

Spec == Init /\ [][Next]_vars

\* The call runs on one thread and every psi4.optimize invocation returns or
\* fails, so a step that can be taken is taken.
LiveSpec == Spec /\ WF_vars(Next)

\* ------------------------------------------------------- derived notions
Terminated == pc \in {"returned", "raised"}

\* the call ended by re-raising a convergence failure
Exhausted == pc = "raised" /\ raised[1].kind = "ConvergenceError"

\* the call returned normally
Succeeded == pc = "returned"

\* number of failed (unconverged) invocations so far
RECURSIVE CountOf(_, _)
CountOf(seq, x) ==
    IF seq = <<>> THEN 0
    ELSE (IF Head(seq) = x THEN 1 ELSE 0) + CountOf(Tail(seq), x)

Failures == CountOf(outcomes, "unconverged")

\* every invocation so far reported a convergence failure
AlwaysUnconverged == \A i \in 1..Len(outcomes) : outcomes[i] = "unconverged"

TypeOK ==
    /\ pc \in {"entry", "loop", "after_loop", "returned", "raised"}
    /\ loop_count \in 0..MaxAttempts
    /\ invocations \in 0..MaxAttempts
    /\ Len(outcomes) = invocations
    /\ Len(returned) <= 1 /\ Len(raised) <= 1

\* the cap of the model is never what stops the loop
CapNeverBinds == (pc = "loop" /\ unconv) => invocations < MaxAttempts


\* the invocations made after a convergence failure (the restarts)
Restarts ==
    Cardinality({i \in 2..Len(outcomes) : outcomes[i - 1] = "unconverged"})

Last(seq) == seq[Len(seq)]

\* ------------------------------------------------------------------ claims

\* C1 (as stated): when every invocation reports a convergence failure and
\* max_loop_count = M >= 0, the failure is propagated after exactly M + 1
\* invocations of psi4.optimize.
C1_AttemptsAreMPlusOne ==
    (Exhausted /\ AlwaysUnconverged /\ max_loop_count >= 0)
        => invocations = max_loop_count + 1

\* C1 (amended): when every invocation reports a convergence failure and
\* max_loop_count = M >= 0, the failure is propagated after exactly
\* max(1, M) invocations, and not before.
C1_AttemptsAreMaxOfOneAndM ==
    (AlwaysUnconverged /\ max_loop_count >= 0) =>
        /\ Exhausted => invocations = MaxOf(1, max_loop_count)
        /\ pc = "loop" => invocations < MaxOf(1, max_loop_count)

C1_Witness ==
    Exhausted /\ AlwaysUnconverged /\ max_loop_count = 3 /\ invocations = 3

\* C2 (as stated): after k failed attempts the options MAXITER and
\* GEOM_MAXITER equal initial_iterations + k * increment_iteration.
C2_BudgetGrowsWithEachFailure ==
    (pc # "entry") =>
        /\ options.MAXITER
             = initial_iterations + Failures * increment_iteration
        /\ options.GEOM_MAXITER
             = initial_iterations + Failures * increment_iteration

\* C3 (as stated): for max_loop_count >= 0 the retry counter loop_count is
\* at most max_loop_count in every state.
C3_CounterAtMostMaximum ==
    (max_loop_count >= 0) => loop_count <= max_loop_count

\* C3 (amended): loop_count is at most max(1, max_loop_count) in every
\* state, and once a failure has brought loop_count to max_loop_count or
\* beyond, the call has ended by raising: no other attempt follows.
C3_CounterAtMostCeiling ==
    /\ loop_count <= MaxOf(1, max_loop_count)
    /\ (loop_count >= 1 /\ max_loop_count <= loop_count) => pc = "raised"
    /\ (pc = "loop" /\ invocations >= 1) => loop_count < max_loop_count

C3_Witness ==
    Exhausted /\ max_loop_count >= 2 /\ loop_count = max_loop_count

\* C4: when an attempt fails with the ceiling reached, the exception that
\* leaves psi4_optimize is the very ConvergenceError caught from that
\* invocation, with its unconverged wavefunction, and nothing is returned.
C4_OriginalFailureReraised ==
    (outcomes # <<>> /\ Last(outcomes) = "unconverged"
        /\ max_loop_count <= loop_count) =>
        /\ pc = "raised"
        /\ raised = <<ConvergenceError(invocations)>>
        /\ raised[1].wfn = Last(writes).wfn
        /\ returned = <<>>
        /\ result = <<>>

C4_Witness ==
    /\ Exhausted
    /\ invocations = 2
    /\ raised = <<ConvergenceError(2)>>
    /\ returned = <<>>

\* C5: when the first invocation converges, it is the only invocation, the
\* retry counter is 0, nothing is written to the scratch file, and without
\* a molecule handle molecule_traj is never bound and the history of the
\* engine is what is returned.
C5_FirstAttemptConverges ==
    (outcomes # <<>> /\ outcomes[1] = "converged") =>
        /\ invocations = 1
        /\ pc \in {"after_loop", "returned"}
        /\ loop_count = 0
        /\ writes = <<>> /\ files = <<>>
        /\ raised = <<>>
        /\ ~molecule => "molecule_traj" \notin bound
        /\ (pc = "returned" /\ ~molecule) =>
              returned[1].traj = [history_of |-> 1]

C5_Witness ==
    /\ pc = "returned"
    /\ outcomes = <<"converged">>
    /\ ~molecule
    /\ initial_iterations = 2 /\ increment_iteration = 2
    /\ max_loop_count = MaxM

\* C6: a call that returns after n failed attempts has written the scratch
\* file exactly n times, always that of unit 180, and its retry counter is
\* n; n failures with n below max_loop_count never end the call.
C6_OneWritePerFailure ==
    /\ Succeeded =>
          /\ Len(writes) = Failures
          /\ loop_count = Failures
          /\ \A i \in 1..Len(writes) : writes[i].unit = ScratchUnit
          /\ DOMAIN files \subseteq {ScratchUnit}
    /\ (AlwaysUnconverged /\ Failures < max_loop_count) => pc # "raised"

C6_Witness ==
    /\ Succeeded
    /\ outcomes = <<"unconverged", "unconverged", "unconverged", "converged">>
    /\ Len(writes) = 3
    /\ loop_count = 3

\* C7 (as stated): with a molecule handle and max_loop_count = M >= 0,
\* molecule_traj holds exactly M entries when the failure of a solve that
\* never converges is propagated.
C7_TrajectoryHoldsMEntries ==
    (molecule /\ Exhausted /\ AlwaysUnconverged /\ max_loop_count >= 0)
        => Len(molecule_traj) = max_loop_count

\* C7 (amended): with a molecule handle and max_loop_count = M >= 0,
\* molecule_traj holds exactly max(1, M) entries, one per failed attempt,
\* when the failure of a solve that never converges is propagated, and no
\* entry when the first attempt converges.
C7_TrajectoryHoldsOnePerFailure ==
    /\ (molecule /\ Exhausted /\ AlwaysUnconverged /\ max_loop_count >= 0) =>
          /\ Len(molecule_traj) = MaxOf(1, max_loop_count)
          /\ Len(molecule_traj) = Failures
    /\ (molecule /\ outcomes # <<>> /\ outcomes[1] = "converged") =>
          Len(molecule_traj) = 0

C7_Witness ==
    /\ molecule /\ Exhausted
    /\ max_loop_count = 3
    /\ Len(molecule_traj) = 3

\* C8: an invocation that fails with an error other than a convergence
\* failure ends the call with that error, leaving loop_count, the options,
\* the scratch file and molecule_traj as they were; no invocation follows.
C8_OtherErrorsPropagate ==
    [][/\ (Len(outcomes') > Len(outcomes) /\ Last(outcomes') = "error") =>
            /\ pc' = "raised"
            /\ raised' = <<OtherError(invocations')>>
            /\ UNCHANGED <<loop_count, options, files, writes, molecule_traj>>
       /\ (pc = "raised") => UNCHANGED <<invocations, outcomes>>]_vars

C8_Witness ==
    /\ pc = "raised"
    /\ raised = <<OtherError(3)>>
    /\ loop_count = 2
    /\ Len(writes) = 2

\* C9: for every integer max_loop_count and whatever the invocations
\* report, the call eventually ends, by returning or by raising, after at
\* most max(1, max_loop_count) invocations.
C9_CallTerminates ==
    <>(Terminated /\ invocations <= MaxOf(1, max_loop_count))

C9_Witness ==
    Exhausted /\ max_loop_count < 0 /\ invocations = 1

\* C10: for max_loop_count >= 0, the number of invocations made after a
\* convergence failure never exceeds max_loop_count.
C10_RestartsAtMostMaximum ==
    (max_loop_count >= 0) => Restarts <= max_loop_count

C10_Witness ==
    Restarts = 3 /\ max_loop_count = 4


\* ------------------------------------------------- the driver as a machine
\* The state of the driver.  FAILED_RETRYING is the except block on its way
\* to the next pass of the loop: it lies inside one ConvergenceFailure step.
Phase ==
    CASE pc = "entry" -> "NOT_STARTED"
      [] pc = "loop" -> "ATTEMPTING"
      [] pc \in {"after_loop", "returned"} -> "SUCCEEDED"
      [] pc = "raised" /\ raised[1].kind = "ConvergenceError" -> "EXHAUSTED"
      [] OTHER -> "FAILED"

\* this step is a psi4.optimize invocation with the given outcome
Invoked(outcome) ==
    /\ invocations' = invocations + 1
    /\ Last(outcomes') = outcome

\* this step goes through FAILED_RETRYING back to ATTEMPTING: the failing
\* state is written, the budget raised, the counter incremented
StepRetries ==
    /\ Invoked("unconverged")
    /\ Phase' = "ATTEMPTING"
    /\ Len(writes') = Len(writes) + 1
    /\ options'.MAXITER = initial_iterations + increment_iteration
    /\ loop_count' = loop_count + 1

\* nothing of the call changes any more
Frozen ==
    UNCHANGED <<invocations, outcomes, options, writes, files, loop_count,
                molecule_traj, raised>>

\* C11 (as stated): a non-convergence in ATTEMPTING leads through
\* FAILED_RETRYING back to ATTEMPTING while the retry counter is below
\* max_loop_count and to EXHAUSTED when the counter has reached it; a
\* convergence leads to SUCCEEDED; SUCCEEDED and EXHAUSTED are terminal.
C11_TransitionsOnCounter ==
    [][/\ (Phase = "ATTEMPTING" /\ Invoked("converged")) =>
              Phase' = "SUCCEEDED"
       /\ (Phase = "ATTEMPTING" /\ Invoked("unconverged")
              /\ loop_count < max_loop_count) => StepRetries
       /\ (Phase = "ATTEMPTING" /\ Invoked("unconverged")
              /\ loop_count >= max_loop_count) => Phase' = "EXHAUSTED"
       /\ (Phase \in {"SUCCEEDED", "EXHAUSTED"}) => Frozen]_vars

\* C11 (amended): the same transitions, decided on the counter after its
\* increment: a non-convergence leads back to ATTEMPTING while
\* loop_count + 1 < max_loop_count and to EXHAUSTED otherwise; an error
\* other than a convergence failure ends the call too; every ended state
\* is terminal.
C11_TransitionsOnIncrementedCounter ==
    [][/\ (Phase = "NOT_STARTED") => Phase' = "ATTEMPTING"
       /\ (Phase = "ATTEMPTING") =>
            \/ Invoked("converged") /\ Phase' = "SUCCEEDED"
            \/ StepRetries /\ loop_count + 1 < max_loop_count
            \/ /\ Invoked("unconverged")
               /\ Phase' = "EXHAUSTED"
               /\ loop_count + 1 >= max_loop_count
            \/ Invoked("error") /\ Phase' = "FAILED"
       /\ (Phase \in {"SUCCEEDED", "EXHAUSTED", "FAILED"}) =>
            Frozen /\ Phase' = Phase]_vars

C11_Witness ==
    /\ Phase = "EXHAUSTED"
    /\ outcomes = <<"unconverged", "unconverged", "unconverged">>
    /\ max_loop_count = 3


\* the geometries of the failed attempts 1..n, in order
SnapshotsOf(n) == [i \in 1..n |-> Snapshot(i)]

\* C12: a call that returns hands back the energy and the wavefunction of
\* its last invocation, the one that converged; its third component is the
\* history of that invocation when no molecule was given and the
\* geometries accumulated at the failures when one was given.
C12_ReturnsFinalAttempt ==
    Succeeded =>
        /\ Last(outcomes) = "converged"
        /\ \A i \in 1..(invocations - 1) : outcomes[i] = "unconverged"
        /\ returned[1].opt_energy = invocations
        /\ returned[1].wfn = invocations
        /\ ~molecule => returned[1].traj = [history_of |-> invocations]
        /\ molecule =>
              returned[1].traj = [coordinates |-> SnapshotsOf(invocations - 1)]

C12_Witness ==
    /\ Succeeded /\ molecule
    /\ invocations = 3
    /\ returned[1].wfn = 3
    /\ Len(returned[1].traj.coordinates) = 2


\* C13: with a molecule handle, every failed attempt appends the geometry
\* taken at that failure to the end of molecule_traj and leaves the earlier
\* entries as they were; no other step changes molecule_traj.
C13_TrajectoryAppendOnly ==
    [][molecule =>
         /\ Invoked("unconverged") =>
               /\ Len(molecule_traj') = Len(molecule_traj) + 1
               /\ SubSeq(molecule_traj', 1, Len(molecule_traj)) = molecule_traj
               /\ Last(molecule_traj') = Snapshot(invocations')
         /\ ~Invoked("unconverged") => molecule_traj' = molecule_traj]_vars

C13_Witness ==
    /\ molecule
    /\ molecule_traj = <<Snapshot(1), Snapshot(2), Snapshot(3)>>
    /\ pc = "loop"

\* the positions of an effect in the history of the call
Positions(e) == {i \in 1..Len(events) : events[i] = e}

\* i and j are the positions of two consecutive psi4.optimize invocations
Consecutive(i, j) ==
    /\ i \in Positions("optimize") /\ j \in Positions("optimize")
    /\ i < j
    /\ \A m \in (i + 1)..(j - 1) : events[m] # "optimize"

\* C14: between two consecutive psi4.optimize invocations there is exactly
\* one write of the scratch file and one update of the options, the write
\* first, and loop_count is incremented exactly once.
C14_OneRestartBetweenInvocations ==
    /\ \A i, j \in 1..Len(events) :
          Consecutive(i, j) =>
             \E w, o \in (i + 1)..(j - 1) :
                /\ Positions("to_file") \cap (i..j) = {w}
                /\ Positions("set_options") \cap (i..j) = {o}
                /\ w < o
    /\ (pc = "loop") => loop_count = invocations
    /\ Len(writes) = Cardinality(Positions("to_file"))

C14_Witness ==
    /\ invocations = 3
    /\ loop_count = 2
    /\ Cardinality(Positions("to_file")) = 2
    /\ pc = "after_loop"

\* C15: the warnings logged are as many as the failed attempts; an error is
\* logged at most once, and exactly once when and only when the call ends
\* by re-raising the convergence failure, after the last warning and before
\* the raise.
C15_WarningsAndError ==
    /\ Cardinality(Positions("warning")) = Failures
    /\ Cardinality(Positions("error")) = (IF Exhausted THEN 1 ELSE 0)
    /\ Exhausted =>
          \E e \in Positions("error") :
             /\ \A w \in Positions("warning") : w < e
             /\ \A r \in Positions("raise") : e < r
             /\ Positions("raise") # {}

C15_Witness ==
    /\ Exhausted
    /\ Cardinality(Positions("warning")) = 3
    /\ Cardinality(Positions("error")) = 1


\* C16: once the call has set the options, MAXITER and GEOM_MAXITER never
\* decrease from one step to the next; loop_count is 0 when the loop is
\* entered and grows by exactly 1 at each convergence failure and at no
\* other step.
C16_BudgetNeverDecreases ==
    [][/\ (pc = "entry") => loop_count' = 0
       /\ (pc # "entry") =>
            /\ options'.MAXITER >= options.MAXITER
            /\ options'.GEOM_MAXITER >= options.GEOM_MAXITER
            /\ Invoked("unconverged") => loop_count' = loop_count + 1
            /\ ~Invoked("unconverged") => loop_count' = loop_count]_vars

C16_Witness ==
    /\ pc = "loop"
    /\ loop_count = 2
    /\ options.MAXITER = initial_iterations + increment_iteration
    /\ increment_iteration = MaxInc

\* C17 (as stated): without a molecule handle, the statements after the
\* loop read a local that only the except block binds, which is unbound
\* when no attempt has failed.
C17_ReadsUnboundLocal ==
    (pc = "after_loop" /\ ~molecule /\ Failures = 0) =>
        /\ ReadAfterLoop(molecule) \cap BoundOnlyByExcept # {}
        /\ ~(ReadAfterLoop(molecule) \subseteq bound)

\* C17 (amended): with or without a molecule handle, every local the
\* statements after the loop read is bound when they are reached, none of
\* them is bound only by the except block, and the call never ends with an
\* UnboundLocalError.
C17_ReadsOnlyBoundLocals ==
    /\ (pc = "after_loop") =>
          /\ ReadAfterLoop(molecule) \subseteq bound
          /\ ReadAfterLoop(molecule) \cap BoundOnlyByExcept = {}
    /\ (pc = "raised") => raised[1].kind # "UnboundLocalError"

C17_Witness ==
    /\ pc = "returned"
    /\ ~molecule
    /\ Failures = 0
    /\ BoundOnlyByExcept \cap bound = {}

\* C18: for every integer max_loop_count, the invocations of psi4.optimize
\* never number more than max(1, max_loop_count), and a call that has
\* ended has made at least one.
C18_InvocationsWithinCeiling ==
    /\ invocations <= MaxOf(1, max_loop_count)
    /\ Terminated => invocations >= 1
    /\ (pc = "loop" /\ invocations >= 1) => invocations < max_loop_count

C18_Witness ==
    Exhausted /\ max_loop_count = 0 /\ invocations = 1


C20_ExhaustedSideEffects ==
    /\ Exhausted =>
          /\ Len(writes) = invocations
          /\ files[ScratchUnit] = invocations
          /\ options.GUESS = "read"
          /\ options.MAXITER = initial_iterations + increment_iteration
          /\ options.GEOM_MAXITER = initial_iterations + increment_iteration
    /\ (Failures = 0) => options.GUESS = options0.GUESS
    /\ (Failures >= 1) => options.GUESS = "read"

C20_Witness ==
    /\ Exhausted
    /\ options0.GUESS = "sad"
    /\ options.GUESS = "read"
    /\ Len(writes) = 2
    /\ invocations = 2

=============================================================================
